---- MODULE Spec2Model ----
(***************************************************************************)
(* Model of crates/vim/src/command.rs: the colon-command interceptor of    *)
(* the vim mode.  command_interceptor and generate_positions are pure      *)
(* functions; they are modelled as operators and applied by the actions    *)
(* of a small state machine whose inputs range over bounded sets.          *)
(*                                                                         *)
(* A Rust &str is modelled as a sequence of characters, each character     *)
(* being a one-character string.  Character indices reported by            *)
(* chars().enumerate() are 0-based; sequence indices here are 1-based.     *)
(***************************************************************************)
EXTENDS Integers, Sequences, FiniteSets

VARIABLES call, query, result, gp_string, gp_query, gp_positions

vars == <<call, query, result, gp_string, gp_query, gp_positions>>

-----------------------------------------------------------------------------
(* Bounds of the explored input space.                                     *)

MaxLen == 3

MaxColons == 2

MaxGPLen == 3

-----------------------------------------------------------------------------
(* Strings and characters.                                                 *)

Digits == <<"0", "1", "2", "3", "4", "5", "6", "7", "8", "9">>

\* UTF-8 encoded length of a character; the one non-ASCII character of the
\* model is two bytes long.
len_utf8(c) == IF c = "é" THEN 2 ELSE 1

\* str::starts_with for a one-character pattern.
starts_with(s, c) == s # <<>> /\ s[1] = c

\* &s[1..]: slicing at byte offset 1 aborts unless offset 1 is a character
\* boundary of s.
slice_from_1(s) ==
    [ok  |-> s # <<>> /\ len_utf8(s[1]) = 1,
     str |-> IF s = <<>> THEN <<>> ELSE Tail(s)]

\* char::to_digit(10): the value of a decimal digit, -1 for any other char.
to_digit(c) ==
    IF \E d \in 1..10 : Digits[d] = c
    THEN (CHOOSE d \in 1..10 : Digits[d] = c) - 1
    ELSE -1

-----------------------------------------------------------------------------
(* u32 arithmetic.  A u32 is kept as two 16-bit limbs.                     *)

Limb == 65536

U32(hi, lo) == [hi |-> hi, lo |-> lo]

U32Zero == U32(0, 0)

\* Variant of checked_mul10_add: wrapping arithmetic, no overflow reported.
wrapping_mul10_add(v, d) ==
    LET lo == v.lo * 10 + d
        hi == v.hi * 10 + (lo \div Limb)
    IN  [ok |-> TRUE, val |-> U32(hi % Limb, lo % Limb)]

\* checked_mul(10) followed by checked_add(d): ok is FALSE on overflow.
checked_mul10_add(v, d) ==
    LET lo == v.lo * 10 + d
        hi == v.hi * 10 + (lo \div Limb)
    IN  [ok |-> hi < Limb, val |-> U32(hi % Limb, lo % Limb)]

RECURSIVE parse_digits(_, _)
parse_digits(s, acc) ==
    IF s = <<>> THEN [ok |-> TRUE, val |-> acc]
    ELSE IF to_digit(s[1]) < 0 THEN [ok |-> FALSE, val |-> U32Zero]
    ELSE LET step == checked_mul10_add(acc, to_digit(s[1]))
         IN  IF step.ok THEN parse_digits(Tail(s), step.val)
             ELSE [ok |-> FALSE, val |-> U32Zero]

\* <u32 as FromStr>::from_str: an empty string and a lone sign are errors,
\* one leading '+' is skipped, every remaining character must be a digit
\* and the value must fit.
parse_u32(s) ==
    IF s = <<>> THEN [ok |-> FALSE, val |-> U32Zero]
    ELSE IF s = <<"+">> \/ s = <<"-">> THEN [ok |-> FALSE, val |-> U32Zero]
    ELSE parse_digits(IF s[1] = "+" THEN Tail(s) ELSE s, U32Zero)

-----------------------------------------------------------------------------
(* Actions handed to the host, all of one record shape.                    *)

Act(type, save_behavior, direction) ==
    [type |-> type, save_behavior |-> save_behavior, direction |-> direction,
     query |-> <<>>, backwards |-> FALSE, line |-> U32Zero]

NoAction == Act("", "", "")

FindCommand(q, backwards) ==
    [type |-> "FindCommand", save_behavior |-> "", direction |-> "",
     query |-> q, backwards |-> backwards, line |-> U32Zero]

ReplaceCommand(q) ==
    [type |-> "ReplaceCommand", save_behavior |-> "", direction |-> "",
     query |-> q, backwards |-> FALSE, line |-> U32Zero]

GoToLine(line) ==
    [type |-> "GoToLine", save_behavior |-> "", direction |-> "",
     query |-> <<>>, backwards |-> FALSE, line |-> line]

\* Option<CommandInterceptResult>, plus the abort of the thread.
None == [kind |-> "None", action |-> NoAction, string |-> <<>>, positions |-> <<>>]

Panic == [kind |-> "Panic", action |-> NoAction, string |-> <<>>, positions |-> <<>>]

CommandInterceptResult(action, string, positions) ==
    [kind |-> "Some", action |-> action, string |-> string, positions |-> positions]

-----------------------------------------------------------------------------
(* The alias table: the arms of the match, in source order.                *)

\* Variant of Arms: the last arm also lists the literal "42".
Arms_numeric_alias ==
    <<
       [pats |-> {<<"w">>, <<"w", "r">>, <<"w", "r", "i">>, <<"w", "r", "i", "t">>, <<"w", "r", "i", "t", "e">>},
        name |-> <<"w", "r", "i", "t", "e">>,
        action |-> Act("Save", "PromptOnConflict", "")],
       [pats |-> {<<"w", "!">>, <<"w", "r", "!">>, <<"w", "r", "i", "!">>, <<"w", "r", "i", "t", "!">>, <<"w", "r", "i", "t", "e", "!">>},
        name |-> <<"w", "r", "i", "t", "e", "!">>,
        action |-> Act("Save", "SilentlyOverwrite", "")],
       [pats |-> {<<"q">>, <<"q", "u">>, <<"q", "u", "i">>, <<"q", "u", "i", "t">>},
        name |-> <<"q", "u", "i", "t">>,
        action |-> Act("CloseActiveItem", "PromptOnWrite", "")],
       [pats |-> {<<"q", "!">>, <<"q", "u", "!">>, <<"q", "u", "i", "!">>, <<"q", "u", "i", "t", "!">>},
        name |-> <<"q", "u", "i", "t", "!">>,
        action |-> Act("CloseActiveItem", "DontSave", "")],
       [pats |-> {<<"w", "q">>},
        name |-> <<"w", "q">>,
        action |-> Act("CloseActiveItem", "PromptOnConflict", "")],
       [pats |-> {<<"w", "q", "!">>},
        name |-> <<"w", "q", "!">>,
        action |-> Act("CloseActiveItem", "SilentlyOverwrite", "")],
       [pats |-> {<<"x">>, <<"x", "i">>, <<"x", "i", "t">>, <<"e", "x", "i">>, <<"e", "x", "i", "t">>},
        name |-> <<"e", "x", "i", "t">>,
        action |-> Act("CloseActiveItem", "PromptOnConflict", "")],
       [pats |-> {<<"x", "!">>, <<"x", "i", "!">>, <<"x", "i", "t", "!">>, <<"e", "x", "i", "!">>, <<"e", "x", "i", "t", "!">>},
        name |-> <<"e", "x", "i", "t", "!">>,
        action |-> Act("CloseActiveItem", "SilentlyOverwrite", "")],
       [pats |-> {<<"w", "a">>, <<"w", "a", "l">>, <<"w", "a", "l", "l">>},
        name |-> <<"w", "a", "l", "l">>,
        action |-> Act("SaveAll", "PromptOnConflict", "")],
       [pats |-> {<<"w", "a", "!">>, <<"w", "a", "l", "!">>, <<"w", "a", "l", "l", "!">>},
        name |-> <<"w", "a", "l", "l", "!">>,
        action |-> Act("SaveAll", "SilentlyOverwrite", "")],
       [pats |-> {<<"q", "a">>, <<"q", "a", "l">>, <<"q", "a", "l", "l">>, <<"q", "u", "i", "t", "a">>, <<"q", "u", "i", "t", "a", "l">>, <<"q", "u", "i", "t", "a", "l", "l">>},
        name |-> <<"q", "u", "i", "t", "a", "l", "l">>,
        action |-> Act("CloseAllItemsAndPanes", "PromptOnWrite", "")],
       [pats |-> {<<"q", "a", "!">>, <<"q", "a", "l", "!">>, <<"q", "a", "l", "l", "!">>, <<"q", "u", "i", "t", "a", "!">>, <<"q", "u", "i", "t", "a", "l", "!">>, <<"q", "u", "i", "t", "a", "l", "l", "!">>},
        name |-> <<"q", "u", "i", "t", "a", "l", "l", "!">>,
        action |-> Act("CloseAllItemsAndPanes", "DontSave", "")],
       [pats |-> {<<"x", "a">>, <<"x", "a", "l">>, <<"x", "a", "l", "l">>},
        name |-> <<"x", "a", "l", "l">>,
        action |-> Act("CloseAllItemsAndPanes", "PromptOnConflict", "")],
       [pats |-> {<<"x", "a", "!">>, <<"x", "a", "l", "!">>, <<"x", "a", "l", "l", "!">>},
        name |-> <<"x", "a", "l", "l", "!">>,
        action |-> Act("CloseAllItemsAndPanes", "SilentlyOverwrite", "")],
       [pats |-> {<<"w", "q", "a">>, <<"w", "q", "a", "l">>, <<"w", "q", "a", "l", "l">>},
        name |-> <<"w", "q", "a", "l", "l">>,
        action |-> Act("CloseAllItemsAndPanes", "PromptOnConflict", "")],
       [pats |-> {<<"w", "q", "a", "!">>, <<"w", "q", "a", "l", "!">>, <<"w", "q", "a", "l", "l", "!">>},
        name |-> <<"w", "q", "a", "l", "l", "!">>,
        action |-> Act("CloseAllItemsAndPanes", "SilentlyOverwrite", "")],
       [pats |-> {<<"c", "q">>, <<"c", "q", "u">>, <<"c", "q", "u", "i">>, <<"c", "q", "u", "i", "t">>, <<"c", "q", "!">>, <<"c", "q", "u", "!">>, <<"c", "q", "u", "i", "!">>, <<"c", "q", "u", "i", "t", "!">>},
        name |-> <<"c", "q", "u", "i", "t", "!">>,
        action |-> Act("Quit", "", "")],
       [pats |-> {<<"s", "p">>, <<"s", "p", "l">>, <<"s", "p", "l", "i">>, <<"s", "p", "l", "i", "t">>},
        name |-> <<"s", "p", "l", "i", "t">>,
        action |-> Act("SplitUp", "", "")],
       [pats |-> {<<"v", "s">>, <<"v", "s", "p">>, <<"v", "s", "p", "l">>, <<"v", "s", "p", "l", "i">>, <<"v", "s", "p", "l", "i", "t">>},
        name |-> <<"v", "s", "p", "l", "i", "t">>,
        action |-> Act("SplitLeft", "", "")],
       [pats |-> {<<"n", "e", "w">>},
        name |-> <<"n", "e", "w">>,
        action |-> Act("NewFileInDirection", "", "Up")],
       [pats |-> {<<"v", "n", "e">>, <<"v", "n", "e", "w">>},
        name |-> <<"v", "n", "e", "w">>,
        action |-> Act("NewFileInDirection", "", "Left")],
       [pats |-> {<<"t", "a", "b", "e">>, <<"t", "a", "b", "e", "d">>, <<"t", "a", "b", "e", "d", "i">>, <<"t", "a", "b", "e", "d", "i", "t">>},
        name |-> <<"t", "a", "b", "e", "d", "i", "t">>,
        action |-> Act("NewFile", "", "")],
       [pats |-> {<<"t", "a", "b", "n", "e", "w">>},
        name |-> <<"t", "a", "b", "n", "e", "w">>,
        action |-> Act("NewFile", "", "")],
       [pats |-> {<<"t", "a", "b", "n">>, <<"t", "a", "b", "n", "e">>, <<"t", "a", "b", "n", "e", "x">>, <<"t", "a", "b", "n", "e", "x", "t">>},
        name |-> <<"t", "a", "b", "n", "e", "x", "t">>,
        action |-> Act("ActivateNextItem", "", "")],
       [pats |-> {<<"t", "a", "b", "p">>, <<"t", "a", "b", "p", "r">>, <<"t", "a", "b", "p", "r", "e">>, <<"t", "a", "b", "p", "r", "e", "v">>, <<"t", "a", "b", "p", "r", "e", "v", "i">>, <<"t", "a", "b", "p", "r", "e", "v", "i", "o">>, <<"t", "a", "b", "p", "r", "e", "v", "i", "o", "u">>, <<"t", "a", "b", "p", "r", "e", "v", "i", "o", "u", "s">>},
        name |-> <<"t", "a", "b", "p", "r", "e", "v", "i", "o", "u", "s">>,
        action |-> Act("ActivatePrevItem", "", "")],
       [pats |-> {<<"t", "a", "b", "N">>, <<"t", "a", "b", "N", "e">>, <<"t", "a", "b", "N", "e", "x">>, <<"t", "a", "b", "N", "e", "x", "t">>},
        name |-> <<"t", "a", "b", "N", "e", "x", "t">>,
        action |-> Act("ActivatePrevItem", "", "")],
       [pats |-> {<<"t", "a", "b", "c">>, <<"t", "a", "b", "c", "l">>, <<"t", "a", "b", "c", "l", "o">>, <<"t", "a", "b", "c", "l", "o", "s">>, <<"t", "a", "b", "c", "l", "o", "s", "e">>},
        name |-> <<"t", "a", "b", "c", "l", "o", "s", "e">>,
        action |-> Act("CloseActiveItem", "PromptOnWrite", "")],
       [pats |-> {<<"c", "l">>, <<"c", "l", "i">>, <<"c", "l", "i", "s">>, <<"c", "l", "i", "s", "t">>},
        name |-> <<"c", "l", "i", "s", "t">>,
        action |-> Act("Deploy", "", "")],
       [pats |-> {<<"c", "c">>},
        name |-> <<"c", "c">>,
        action |-> Act("Hover", "", "")],
       [pats |-> {<<"l", "l">>},
        name |-> <<"l", "l">>,
        action |-> Act("Hover", "", "")],
       [pats |-> {<<"c", "n">>, <<"c", "n", "e">>, <<"c", "n", "e", "x">>, <<"c", "n", "e", "x", "t">>},
        name |-> <<"c", "n", "e", "x", "t">>,
        action |-> Act("GoToDiagnostic", "", "")],
       [pats |-> {<<"l", "n", "e">>, <<"l", "n", "e", "x">>, <<"l", "n", "e", "x", "t">>},
        name |-> <<"c", "n", "e", "x", "t">>,
        action |-> Act("GoToDiagnostic", "", "")],
       [pats |-> {<<"c", "p", "r">>, <<"c", "p", "r", "e">>, <<"c", "p", "r", "e", "v">>, <<"c", "p", "r", "e", "v", "i">>, <<"c", "p", "r", "e", "v", "i", "o">>, <<"c", "p", "r", "e", "v", "i", "o", "u">>, <<"c", "p", "r", "e", "v", "i", "o", "u", "s">>},
        name |-> <<"c", "p", "r", "e", "v", "i", "o", "u", "s">>,
        action |-> Act("GoToPrevDiagnostic", "", "")],
       [pats |-> {<<"c", "N">>, <<"c", "N", "e">>, <<"c", "N", "e", "x">>, <<"c", "N", "e", "x", "t">>},
        name |-> <<"c", "N", "e", "x", "t">>,
        action |-> Act("GoToPrevDiagnostic", "", "")],
       [pats |-> {<<"l", "p">>, <<"l", "p", "r">>, <<"l", "p", "r", "e">>, <<"l", "p", "r", "e", "v">>, <<"l", "p", "r", "e", "v", "i">>, <<"l", "p", "r", "e", "v", "i", "o">>, <<"l", "p", "r", "e", "v", "i", "o", "u">>, <<"l", "p", "r", "e", "v", "i", "o", "u", "s">>},
        name |-> <<"l", "p", "r", "e", "v", "i", "o", "u", "s">>,
        action |-> Act("GoToPrevDiagnostic", "", "")],
       [pats |-> {<<"l", "N">>, <<"l", "N", "e">>, <<"l", "N", "e", "x">>, <<"l", "N", "e", "x", "t">>},
        name |-> <<"l", "N", "e", "x", "t">>,
        action |-> Act("GoToPrevDiagnostic", "", "")],
       [pats |-> {<<"j">>, <<"j", "o">>, <<"j", "o", "i">>, <<"j", "o", "i", "n">>},
        name |-> <<"j", "o", "i", "n">>,
        action |-> Act("JoinLines", "", "")],
       [pats |-> {<<"d">>, <<"d", "e">>, <<"d", "e", "l">>, <<"d", "e", "l", "e">>, <<"d", "e", "l", "e", "t">>, <<"d", "e", "l", "e", "t", "e">>, <<"d", "l">>, <<"d", "e", "l", "l">>, <<"d", "e", "l", "e", "l">>, <<"d", "e", "l", "e", "t", "l">>, <<"d", "e", "l", "e", "t", "e", "l">>, <<"d", "p">>, <<"d", "e", "p">>, <<"d", "e", "l", "p">>, <<"d", "e", "l", "e", "p">>, <<"d", "e", "l", "e", "t", "p">>, <<"d", "e", "l", "e", "t", "e", "p">>},
        name |-> <<"d", "e", "l", "e", "t", "e">>,
        action |-> Act("DeleteLine", "", "")],
       [pats |-> {<<"s", "o", "r">>, <<"s", "o", "r", " ">>, <<"s", "o", "r", "t">>, <<"s", "o", "r", "t", " ">>},
        name |-> <<"s", "o", "r", "t">>,
        action |-> Act("SortLinesCaseSensitive", "", "")],
       [pats |-> {<<"s", "o", "r", " ", "i">>, <<"s", "o", "r", "t", " ", "i">>},
        name |-> <<"s", "o", "r", "t", " ", "i">>,
        action |-> Act("SortLinesCaseInsensitive", "", "")],
       [pats |-> {<<"$">>, <<"4", "2">>},
        name |-> <<"$">>,
        action |-> Act("EndOfDocument", "", "")]
    >>

Arms ==
    <<
       [pats |-> {<<"w">>, <<"w", "r">>, <<"w", "r", "i">>, <<"w", "r", "i", "t">>, <<"w", "r", "i", "t", "e">>},
        name |-> <<"w", "r", "i", "t", "e">>,
        action |-> Act("Save", "PromptOnConflict", "")],
       [pats |-> {<<"w", "!">>, <<"w", "r", "!">>, <<"w", "r", "i", "!">>, <<"w", "r", "i", "t", "!">>, <<"w", "r", "i", "t", "e", "!">>},
        name |-> <<"w", "r", "i", "t", "e", "!">>,
        action |-> Act("Save", "SilentlyOverwrite", "")],
       [pats |-> {<<"q">>, <<"q", "u">>, <<"q", "u", "i">>, <<"q", "u", "i", "t">>},
        name |-> <<"q", "u", "i", "t">>,
        action |-> Act("CloseActiveItem", "PromptOnWrite", "")],
       [pats |-> {<<"q", "!">>, <<"q", "u", "!">>, <<"q", "u", "i", "!">>, <<"q", "u", "i", "t", "!">>},
        name |-> <<"q", "u", "i", "t", "!">>,
        action |-> Act("CloseActiveItem", "DontSave", "")],
       [pats |-> {<<"w", "q">>},
        name |-> <<"w", "q">>,
        action |-> Act("CloseActiveItem", "PromptOnConflict", "")],
       [pats |-> {<<"w", "q", "!">>},
        name |-> <<"w", "q", "!">>,
        action |-> Act("CloseActiveItem", "SilentlyOverwrite", "")],
       [pats |-> {<<"x">>, <<"x", "i">>, <<"x", "i", "t">>, <<"e", "x", "i">>, <<"e", "x", "i", "t">>},
        name |-> <<"e", "x", "i", "t">>,
        action |-> Act("CloseActiveItem", "PromptOnConflict", "")],
       [pats |-> {<<"x", "!">>, <<"x", "i", "!">>, <<"x", "i", "t", "!">>, <<"e", "x", "i", "!">>, <<"e", "x", "i", "t", "!">>},
        name |-> <<"e", "x", "i", "t", "!">>,
        action |-> Act("CloseActiveItem", "SilentlyOverwrite", "")],
       [pats |-> {<<"w", "a">>, <<"w", "a", "l">>, <<"w", "a", "l", "l">>},
        name |-> <<"w", "a", "l", "l">>,
        action |-> Act("SaveAll", "PromptOnConflict", "")],
       [pats |-> {<<"w", "a", "!">>, <<"w", "a", "l", "!">>, <<"w", "a", "l", "l", "!">>},
        name |-> <<"w", "a", "l", "l", "!">>,
        action |-> Act("SaveAll", "SilentlyOverwrite", "")],
       [pats |-> {<<"q", "a">>, <<"q", "a", "l">>, <<"q", "a", "l", "l">>, <<"q", "u", "i", "t", "a">>, <<"q", "u", "i", "t", "a", "l">>, <<"q", "u", "i", "t", "a", "l", "l">>},
        name |-> <<"q", "u", "i", "t", "a", "l", "l">>,
        action |-> Act("CloseAllItemsAndPanes", "PromptOnWrite", "")],
       [pats |-> {<<"q", "a", "!">>, <<"q", "a", "l", "!">>, <<"q", "a", "l", "l", "!">>, <<"q", "u", "i", "t", "a", "!">>, <<"q", "u", "i", "t", "a", "l", "!">>, <<"q", "u", "i", "t", "a", "l", "l", "!">>},
        name |-> <<"q", "u", "i", "t", "a", "l", "l", "!">>,
        action |-> Act("CloseAllItemsAndPanes", "DontSave", "")],
       [pats |-> {<<"x", "a">>, <<"x", "a", "l">>, <<"x", "a", "l", "l">>},
        name |-> <<"x", "a", "l", "l">>,
        action |-> Act("CloseAllItemsAndPanes", "PromptOnConflict", "")],
       [pats |-> {<<"x", "a", "!">>, <<"x", "a", "l", "!">>, <<"x", "a", "l", "l", "!">>},
        name |-> <<"x", "a", "l", "l", "!">>,
        action |-> Act("CloseAllItemsAndPanes", "SilentlyOverwrite", "")],
       [pats |-> {<<"w", "q", "a">>, <<"w", "q", "a", "l">>, <<"w", "q", "a", "l", "l">>},
        name |-> <<"w", "q", "a", "l", "l">>,
        action |-> Act("CloseAllItemsAndPanes", "PromptOnConflict", "")],
       [pats |-> {<<"w", "q", "a", "!">>, <<"w", "q", "a", "l", "!">>, <<"w", "q", "a", "l", "l", "!">>},
        name |-> <<"w", "q", "a", "l", "l", "!">>,
        action |-> Act("CloseAllItemsAndPanes", "SilentlyOverwrite", "")],
       [pats |-> {<<"c", "q">>, <<"c", "q", "u">>, <<"c", "q", "u", "i">>, <<"c", "q", "u", "i", "t">>, <<"c", "q", "!">>, <<"c", "q", "u", "!">>, <<"c", "q", "u", "i", "!">>, <<"c", "q", "u", "i", "t", "!">>},
        name |-> <<"c", "q", "u", "i", "t", "!">>,
        action |-> Act("Quit", "", "")],
       [pats |-> {<<"s", "p">>, <<"s", "p", "l">>, <<"s", "p", "l", "i">>, <<"s", "p", "l", "i", "t">>},
        name |-> <<"s", "p", "l", "i", "t">>,
        action |-> Act("SplitUp", "", "")],
       [pats |-> {<<"v", "s">>, <<"v", "s", "p">>, <<"v", "s", "p", "l">>, <<"v", "s", "p", "l", "i">>, <<"v", "s", "p", "l", "i", "t">>},
        name |-> <<"v", "s", "p", "l", "i", "t">>,
        action |-> Act("SplitLeft", "", "")],
       [pats |-> {<<"n", "e", "w">>},
        name |-> <<"n", "e", "w">>,
        action |-> Act("NewFileInDirection", "", "Up")],
       [pats |-> {<<"v", "n", "e">>, <<"v", "n", "e", "w">>},
        name |-> <<"v", "n", "e", "w">>,
        action |-> Act("NewFileInDirection", "", "Left")],
       [pats |-> {<<"t", "a", "b", "e">>, <<"t", "a", "b", "e", "d">>, <<"t", "a", "b", "e", "d", "i">>, <<"t", "a", "b", "e", "d", "i", "t">>},
        name |-> <<"t", "a", "b", "e", "d", "i", "t">>,
        action |-> Act("NewFile", "", "")],
       [pats |-> {<<"t", "a", "b", "n", "e", "w">>},
        name |-> <<"t", "a", "b", "n", "e", "w">>,
        action |-> Act("NewFile", "", "")],
       [pats |-> {<<"t", "a", "b", "n">>, <<"t", "a", "b", "n", "e">>, <<"t", "a", "b", "n", "e", "x">>, <<"t", "a", "b", "n", "e", "x", "t">>},
        name |-> <<"t", "a", "b", "n", "e", "x", "t">>,
        action |-> Act("ActivateNextItem", "", "")],
       [pats |-> {<<"t", "a", "b", "p">>, <<"t", "a", "b", "p", "r">>, <<"t", "a", "b", "p", "r", "e">>, <<"t", "a", "b", "p", "r", "e", "v">>, <<"t", "a", "b", "p", "r", "e", "v", "i">>, <<"t", "a", "b", "p", "r", "e", "v", "i", "o">>, <<"t", "a", "b", "p", "r", "e", "v", "i", "o", "u">>, <<"t", "a", "b", "p", "r", "e", "v", "i", "o", "u", "s">>},
        name |-> <<"t", "a", "b", "p", "r", "e", "v", "i", "o", "u", "s">>,
        action |-> Act("ActivatePrevItem", "", "")],
       [pats |-> {<<"t", "a", "b", "N">>, <<"t", "a", "b", "N", "e">>, <<"t", "a", "b", "N", "e", "x">>, <<"t", "a", "b", "N", "e", "x", "t">>},
        name |-> <<"t", "a", "b", "N", "e", "x", "t">>,
        action |-> Act("ActivatePrevItem", "", "")],
       [pats |-> {<<"t", "a", "b", "c">>, <<"t", "a", "b", "c", "l">>, <<"t", "a", "b", "c", "l", "o">>, <<"t", "a", "b", "c", "l", "o", "s">>, <<"t", "a", "b", "c", "l", "o", "s", "e">>},
        name |-> <<"t", "a", "b", "c", "l", "o", "s", "e">>,
        action |-> Act("CloseActiveItem", "PromptOnWrite", "")],
       [pats |-> {<<"c", "l">>, <<"c", "l", "i">>, <<"c", "l", "i", "s">>, <<"c", "l", "i", "s", "t">>},
        name |-> <<"c", "l", "i", "s", "t">>,
        action |-> Act("Deploy", "", "")],
       [pats |-> {<<"c", "c">>},
        name |-> <<"c", "c">>,
        action |-> Act("Hover", "", "")],
       [pats |-> {<<"l", "l">>},
        name |-> <<"l", "l">>,
        action |-> Act("Hover", "", "")],
       [pats |-> {<<"c", "n">>, <<"c", "n", "e">>, <<"c", "n", "e", "x">>, <<"c", "n", "e", "x", "t">>},
        name |-> <<"c", "n", "e", "x", "t">>,
        action |-> Act("GoToDiagnostic", "", "")],
       [pats |-> {<<"l", "n", "e">>, <<"l", "n", "e", "x">>, <<"l", "n", "e", "x", "t">>},
        name |-> <<"c", "n", "e", "x", "t">>,
        action |-> Act("GoToDiagnostic", "", "")],
       [pats |-> {<<"c", "p", "r">>, <<"c", "p", "r", "e">>, <<"c", "p", "r", "e", "v">>, <<"c", "p", "r", "e", "v", "i">>, <<"c", "p", "r", "e", "v", "i", "o">>, <<"c", "p", "r", "e", "v", "i", "o", "u">>, <<"c", "p", "r", "e", "v", "i", "o", "u", "s">>},
        name |-> <<"c", "p", "r", "e", "v", "i", "o", "u", "s">>,
        action |-> Act("GoToPrevDiagnostic", "", "")],
       [pats |-> {<<"c", "N">>, <<"c", "N", "e">>, <<"c", "N", "e", "x">>, <<"c", "N", "e", "x", "t">>},
        name |-> <<"c", "N", "e", "x", "t">>,
        action |-> Act("GoToPrevDiagnostic", "", "")],
       [pats |-> {<<"l", "p">>, <<"l", "p", "r">>, <<"l", "p", "r", "e">>, <<"l", "p", "r", "e", "v">>, <<"l", "p", "r", "e", "v", "i">>, <<"l", "p", "r", "e", "v", "i", "o">>, <<"l", "p", "r", "e", "v", "i", "o", "u">>, <<"l", "p", "r", "e", "v", "i", "o", "u", "s">>},
        name |-> <<"l", "p", "r", "e", "v", "i", "o", "u", "s">>,
        action |-> Act("GoToPrevDiagnostic", "", "")],
       [pats |-> {<<"l", "N">>, <<"l", "N", "e">>, <<"l", "N", "e", "x">>, <<"l", "N", "e", "x", "t">>},
        name |-> <<"l", "N", "e", "x", "t">>,
        action |-> Act("GoToPrevDiagnostic", "", "")],
       [pats |-> {<<"j">>, <<"j", "o">>, <<"j", "o", "i">>, <<"j", "o", "i", "n">>},
        name |-> <<"j", "o", "i", "n">>,
        action |-> Act("JoinLines", "", "")],
       [pats |-> {<<"d">>, <<"d", "e">>, <<"d", "e", "l">>, <<"d", "e", "l", "e">>, <<"d", "e", "l", "e", "t">>, <<"d", "e", "l", "e", "t", "e">>, <<"d", "l">>, <<"d", "e", "l", "l">>, <<"d", "e", "l", "e", "l">>, <<"d", "e", "l", "e", "t", "l">>, <<"d", "e", "l", "e", "t", "e", "l">>, <<"d", "p">>, <<"d", "e", "p">>, <<"d", "e", "l", "p">>, <<"d", "e", "l", "e", "p">>, <<"d", "e", "l", "e", "t", "p">>, <<"d", "e", "l", "e", "t", "e", "p">>},
        name |-> <<"d", "e", "l", "e", "t", "e">>,
        action |-> Act("DeleteLine", "", "")],
       [pats |-> {<<"s", "o", "r">>, <<"s", "o", "r", " ">>, <<"s", "o", "r", "t">>, <<"s", "o", "r", "t", " ">>},
        name |-> <<"s", "o", "r", "t">>,
        action |-> Act("SortLinesCaseSensitive", "", "")],
       [pats |-> {<<"s", "o", "r", " ", "i">>, <<"s", "o", "r", "t", " ", "i">>},
        name |-> <<"s", "o", "r", "t", " ", "i">>,
        action |-> Act("SortLinesCaseInsensitive", "", "")],
       [pats |-> {<<"$">>},
        name |-> <<"$">>,
        action |-> Act("EndOfDocument", "", "")]
    >>

\* Variant of match_arm: the '!' is dropped before the lookup.
match_arm_ignoring_bang(q) ==
    LET bare == IF q # <<>> /\ q[Len(q)] = "!" THEN SubSeq(q, 1, Len(q) - 1) ELSE q
        hits == {i \in 1..Len(Arms) : bare \in Arms[i].pats}
    IN  IF hits = {} THEN 0
        ELSE CHOOSE i \in hits : \A j \in hits : i <= j

\* The arm selected by the match: the first arm one of whose patterns is
\* the query, 0 for the wildcard arm.
match_arm(q) ==
    LET hits == {i \in 1..Len(Arms) : q \in Arms[i].pats}
    IN  IF hits = {} THEN 0
        ELSE CHOOSE i \in hits : \A j \in hits : i <= j

\* Variant of fallback: the direction flag is taken from the '/' test.
fallback_direction_swapped(q) ==
    IF starts_with(q, "/") \/ starts_with(q, "?") THEN
        LET rest == slice_from_1(q)
        IN  [kind |-> IF rest.ok THEN "Some" ELSE "Panic",
             name |-> q,
             action |-> FindCommand(rest.str, starts_with(q, "/"))]
    ELSE IF starts_with(q, "%") THEN
        [kind |-> "Some", name |-> q, action |-> ReplaceCommand(q)]
    ELSE IF parse_u32(q).ok THEN
        [kind |-> "Some", name |-> q, action |-> GoToLine(parse_u32(q).val)]
    ELSE
        [kind |-> "None", name |-> <<>>, action |-> NoAction]

\* The wildcard arm: the grammar fallback.
fallback(q) ==
    IF starts_with(q, "/") \/ starts_with(q, "?") THEN
        LET rest == slice_from_1(q)
        IN  [kind |-> IF rest.ok THEN "Some" ELSE "Panic",
             name |-> q,
             action |-> FindCommand(rest.str, starts_with(q, "?"))]
    ELSE IF starts_with(q, "%") THEN
        [kind |-> "Some", name |-> q, action |-> ReplaceCommand(q)]
    ELSE IF parse_u32(q).ok THEN
        [kind |-> "Some", name |-> q, action |-> GoToLine(parse_u32(q).val)]
    ELSE
        [kind |-> "None", name |-> <<>>, action |-> NoAction]

\* Variant of positions_loop: the index pushed counts from one.
RECURSIVE positions_loop_one_based(_, _, _, _, _)
positions_loop_one_based(string, q, i, k, positions) ==
    IF i > Len(string) THEN positions
    ELSE IF string[i] = q[k] THEN
        IF k < Len(q)
        THEN positions_loop_one_based(string, q, i + 1, k + 1, Append(positions, i))
        ELSE Append(positions, i)
    ELSE positions_loop_one_based(string, q, i + 1, k, positions)

\* The loop of generate_positions over string.chars().enumerate(): i is the
\* 1-based index of the next character of string, k the 1-based index of
\* `current` in query.
RECURSIVE positions_loop(_, _, _, _, _)
positions_loop(string, q, i, k, positions) ==
    IF i > Len(string) THEN positions
    ELSE IF string[i] = q[k] THEN
        IF k < Len(q)
        THEN positions_loop(string, q, i + 1, k + 1, Append(positions, i - 1))
        ELSE Append(positions, i - 1)
    ELSE positions_loop(string, q, i + 1, k, positions)

\* Variant of generate_positions: characters are compared ignoring case.
generate_positions_ignoring_case(string, q) ==
    LET lower(t) == [i \in 1..Len(t) |-> IF t[i] = "W" THEN "w" ELSE t[i]]
    IN  IF q = <<>> THEN <<>>
        ELSE positions_loop(lower(string), lower(q), 1, 1, <<>>)

generate_positions(string, q) ==
    IF q = <<>> THEN <<>>
    ELSE positions_loop(string, q, 1, 1, <<>>)

\* Variant of strip_colons: an `if` in place of the `while`.
strip_colons_once(q) ==
    IF starts_with(q, ":") THEN
        LET rest == slice_from_1(q)
        IN  [ok |-> rest.ok, str |-> IF rest.ok THEN rest.str ELSE q]
    ELSE [ok |-> TRUE, str |-> q]

\* while query.starts_with(":") { query = &query[1..]; }
RECURSIVE strip_colons(_)
strip_colons(q) ==
    IF starts_with(q, ":") THEN
        LET rest == slice_from_1(q)
        IN  IF rest.ok THEN strip_colons(rest.str)
            ELSE [ok |-> FALSE, str |-> q]
    ELSE [ok |-> TRUE, str |-> q]

\* Variant of resolve: the name shown is the query typed, in every arm.
resolve_typed_name(q) ==
    LET arm == match_arm(q)
        hit == IF arm # 0
               THEN [kind |-> "Some", name |-> q, action |-> Arms[arm].action]
               ELSE fallback(q)
    IN  IF hit.kind = "Some" THEN
            LET string == <<":">> \o hit.name
            IN  CommandInterceptResult(hit.action, string,
                                       generate_positions(string, q))
        ELSE IF hit.kind = "Panic" THEN Panic
        ELSE None

\* Variant of resolve: the display string lacks the ':' put in front.
resolve_without_colon(q) ==
    LET arm == match_arm(q)
        hit == IF arm # 0
               THEN [kind |-> "Some", name |-> Arms[arm].name,
                     action |-> Arms[arm].action]
               ELSE fallback(q)
    IN  IF hit.kind = "Some" THEN
            CommandInterceptResult(hit.action, hit.name,
                                   generate_positions(hit.name, q))
        ELSE IF hit.kind = "Panic" THEN Panic
        ELSE None

\* The match and what follows it, on the query the loop left.
resolve(q) ==
    LET arm == match_arm(q)
        hit == IF arm # 0
               THEN [kind |-> "Some", name |-> Arms[arm].name,
                     action |-> Arms[arm].action]
               ELSE fallback(q)
    IN  IF hit.kind = "Some" THEN
            LET string == <<":">> \o hit.name
            IN  CommandInterceptResult(hit.action, string,
                                       generate_positions(string, q))
        ELSE IF hit.kind = "Panic" THEN Panic
        ELSE None

command_interceptor(q) ==
    LET stripped == strip_colons(q)
    IN  IF stripped.ok THEN resolve(stripped.str) ELSE Panic

-----------------------------------------------------------------------------
(* The inputs.                                                             *)

Alphabet == {":", "/", "?", "%", "0", "9", "+", "-", "w", "!", "é"}

GPAlphabet == {":", "w", "W"}

RECURSIVE Strings(_, _)
Strings(alphabet, n) ==
    IF n = 0 THEN {<<>>}
    ELSE LET shorter == Strings(alphabet, n - 1)
         IN  shorter \cup {Append(s, c) : s \in {t \in shorter : Len(t) = n - 1},
                                          c \in alphabet}

RECURSIVE Colons(_)
Colons(n) == IF n = 0 THEN <<>> ELSE <<":">> \o Colons(n - 1)

AliasLiterals == UNION {Arms[i].pats : i \in 1..Len(Arms)}

\* Queries of the tests of the module and numbers around the u32 limit.
Probes ==
    {<<"3">>, <<"4", "2">>, <<"+", "4", "2">>, <<"-", "4", "2">>,
     <<"0", "0", "4", "2">>, <<"4", "2", "a">>, <<"a", "b", "c">>,
     <<"/", "b">>, <<"?", "a">>, <<"/", "f", "o", "o">>, <<"?", "f", "o", "o">>,
     <<"%", "s", "/", "b", "/", "d">>,
     <<"%", "s", ":", ".", ":", "\\", "0", "\\", "0">>,
     <<"w", ":", "q">>, <<"/", ":", "a", ":">>, <<"/", "é">>, <<"é", "1">>,
     <<"6", "5", "5", "3", "5">>, <<"6", "5", "5", "3", "6">>,
     <<"4", "2", "9", "4", "9", "6", "7", "2", "9", "4">>,
     <<"4", "2", "9", "4", "9", "6", "7", "2", "9", "5">>,
     <<"4", "2", "9", "4", "9", "6", "7", "2", "9", "6">>,
     <<"4", "2", "9", "4", "9", "6", "7", "3", "0", "0">>,
     <<"0", "4", "2", "9", "4", "9", "6", "7", "2", "9", "5">>,
     <<"+", "4", "2", "9", "4", "9", "6", "7", "2", "9", "5">>,
     <<"+", "4", "2", "9", "4", "9", "6", "7", "2", "9", "6">>,
     <<"5", "0", "0", "0", "0", "0", "0", "0", "0", "0">>,
     <<"4", "2", "9", "4", "9", "6", "7", "2", "9", "5", "0">>,
     <<"9", "9", "9", "9", "9", "9", "9", "9", "9", "9", "9", "9">>}

Queries ==
    Strings(Alphabet, MaxLen)
    \cup {Colons(n) \o s : n \in 0..MaxColons, s \in AliasLiterals \cup Probes}

GPStrings == Strings(GPAlphabet, MaxGPLen)

GPPairs ==
    (GPStrings \X GPStrings)
    \cup {<<(<<":">> \o Arms[i].name), s>> :
            i \in 1..Len(Arms), s \in {<<"w">>, <<"w", "r">>, <<"x", "y", "z">>,
                                       <<"d", "e", "l", "l">>, <<"l", "n", "e">>}}

-----------------------------------------------------------------------------
(* The state machine: the functions keep no state between calls, so a      *)
(* behaviour is one call of one of the two functions on one input.         *)

Init ==
    /\ call = "none"
    /\ query = <<>>
    /\ result = None
    /\ gp_string = <<>>
    /\ gp_query = <<>>
    /\ gp_positions = <<>>

CallCommandInterceptor ==
    \E q \in Queries :
        /\ call = "none"
        /\ call' = "command_interceptor"
        /\ query' = q
        /\ result' = command_interceptor(q)
        /\ gp_string' = <<>>
        /\ gp_query' = <<>>
        /\ gp_positions' = <<>>

CallGeneratePositions ==
    \E p \in GPPairs :
        /\ call = "none"
        /\ call' = "generate_positions"
        /\ gp_string' = p[1]
        /\ gp_query' = p[2]
        /\ gp_positions' = generate_positions(p[1], p[2])
        /\ query' = <<>>
        /\ result' = None

Next == CallCommandInterceptor \/ CallGeneratePositions

Spec == Init /\ [][Next]_vars

-----------------------------------------------------------------------------
(* Vocabulary of the properties, stated without the operators above.       *)

\* The number of leading colons of q.
LeadingColons(q) ==
    CHOOSE n \in 0..Len(q) :
        /\ \A i \in 1..n : q[i] = ":"
        /\ n = Len(q) \/ q[n + 1] # ":"

\* q without its leading colons.
Stripped(q) == SubSeq(q, LeadingColons(q) + 1, Len(q))

\* s without its first character.
DropFirst(s) == SubSeq(s, 2, Len(s))

IsDigit(c) == \E d \in 1..10 : Digits[d] = c

PureNumeric(s) == s # <<>> /\ \A i \in 1..Len(s) : IsDigit(s[i])

\* A digit string without its leading zeros ("0" for a string of zeros).
Canonical(s) ==
    LET nz == {i \in 1..Len(s) : s[i] # "0"}
    IN  IF nz = {} THEN <<"0">>
        ELSE SubSeq(s, CHOOSE i \in nz : \A j \in nz : i <= j, Len(s))

MaxU32Digits == <<"4", "2", "9", "4", "9", "6", "7", "2", "9", "5">>

\* a <= b for two digit strings of the same length.
DigitsLe(a, b) ==
    \/ a = b
    \/ \E i \in 1..Len(a) :
        /\ \A j \in 1..(i - 1) : a[j] = b[j]
        /\ to_digit(a[i]) < to_digit(b[i])

\* The value of the pure-numeric string s is at most 4294967295.
FitsU32(s) ==
    \/ Len(Canonical(s)) < Len(MaxU32Digits)
    \/ /\ Len(Canonical(s)) = Len(MaxU32Digits)
       /\ DigitsLe(Canonical(s), MaxU32Digits)

\* The decimal digits of a u32, most significant first.
RECURSIVE DecimalOf(_)
DecimalOf(v) ==
    IF v = U32Zero THEN <<>>
    ELSE LET t == (v.hi % 10) * Limb + v.lo
         IN  DecimalOf(U32(v.hi \div 10, t \div 10)) \o <<Digits[(t % 10) + 1]>>

Decimal(v) == IF v = U32Zero THEN <<"0">> ELSE DecimalOf(v)

\* An optional '+' followed by a pure-numeric string that fits a u32.
SignedNumeric(s) ==
    LET body == IF starts_with(s, "+") THEN DropFirst(s) ELSE s
    IN  PureNumeric(body) /\ FitsU32(body)

Intercepted == call = "command_interceptor"

GrammarPrefixed(s) ==
    starts_with(s, "/") \/ starts_with(s, "?") \/ starts_with(s, "%")

-----------------------------------------------------------------------------
(* C1: on a miss of the alias table the first character of the             *)
(* colon-stripped query selects the grammar: '/' gives a FindCommand over  *)
(* the query without that character with backwards = false, '?' the same   *)
(* with backwards = true, '%' a ReplaceCommand whose payload is the whole  *)
(* colon-stripped query.                                                   *)
C1_FallbackGrammar ==
    (Intercepted /\ Stripped(query) \notin AliasLiterals) =>
        LET s == Stripped(query)
        IN  /\ starts_with(s, "/") =>
                /\ result.kind = "Some"
                /\ result.action = FindCommand(DropFirst(s), FALSE)
            /\ starts_with(s, "?") =>
                /\ result.kind = "Some"
                /\ result.action = FindCommand(DropFirst(s), TRUE)
            /\ starts_with(s, "%") =>
                /\ result.kind = "Some"
                /\ result.action = ReplaceCommand(s)

C1_Witness ==
    /\ Intercepted
    /\ query = <<":", "%", "s", ":", ".", ":", "\\", "0", "\\", "0">>
    /\ result.action.type = "ReplaceCommand"
    /\ result.action.query = DropFirst(query)

(* C2: for a colon-stripped query that is no alias and does not begin with *)
(* '/', '?' or '%', the result is a GoToLine exactly when the query        *)
(* consists solely of decimal digits and its value fits a u32, the line    *)
(* then being that value; every other such query gives None.               *)
C2_GoToLineIffPureNumeric ==
    (/\ Intercepted
     /\ Stripped(query) \notin AliasLiterals
     /\ ~GrammarPrefixed(Stripped(query))) =>
        LET s == Stripped(query)
        IN  IF PureNumeric(s) /\ FitsU32(s)
            THEN /\ result.kind = "Some"
                 /\ result.action.type = "GoToLine"
                 /\ Decimal(result.action.line) = Canonical(s)
            ELSE result = None

-----------------------------------------------------------------------------
EndsWithBang(s) == s # <<>> /\ s[Len(s)] = "!"

WithoutBang(s) == SubSeq(s, 1, Len(s) - 1)

\* The pairs (policy of the plain form, policy of the bang form).
MoreForceful ==
    {<<"PromptOnConflict", "SilentlyOverwrite">>, <<"PromptOnWrite", "DontSave">>}

BangAliasIntercepted ==
    /\ Intercepted
    /\ Stripped(query) \in AliasLiterals
    /\ EndsWithBang(Stripped(query))

(* C3 as stated: for every alias ending in '!', the alias without the '!'  *)
(* is in the table and resolves to the same action type, the display       *)
(* string of the bang alias ends in '!', and its payload is the more       *)
(* forceful policy, so that the two never resolve to the same action and   *)
(* payload.                                                                *)
C3_BangAlwaysMoreForceful ==
    BangAliasIntercepted =>
        LET plain == command_interceptor(WithoutBang(Stripped(query)))
        IN  /\ WithoutBang(Stripped(query)) \in AliasLiterals
            /\ plain.action.type = result.action.type
            /\ EndsWithBang(result.string)
            /\ <<plain.action.save_behavior, result.action.save_behavior>>
                   \in MoreForceful
            /\ plain.action # result.action

(* C3 amended: as above, the payload being the more forceful policy        *)
(* whenever the action carries a save behaviour; a bang alias whose action *)
(* carries none is one of cq!, cqu!, cqui!, cquit! and resolves to the     *)
(* same Quit action and the same display string as its plain form.         *)
C3_BangMoreForcefulWhenPolicy ==
    BangAliasIntercepted =>
        LET plain == command_interceptor(WithoutBang(Stripped(query)))
        IN  /\ WithoutBang(Stripped(query)) \in AliasLiterals
            /\ plain.action.type = result.action.type
            /\ EndsWithBang(result.string)
            /\ IF result.action.save_behavior # ""
               THEN /\ <<plain.action.save_behavior, result.action.save_behavior>>
                           \in MoreForceful
                    /\ plain.action # result.action
               ELSE /\ Stripped(query) \in
                           {<<"c", "q", "!">>, <<"c", "q", "u", "!">>,
                            <<"c", "q", "u", "i", "!">>,
                            <<"c", "q", "u", "i", "t", "!">>}
                    /\ result.action.type = "Quit"
                    /\ plain.action = result.action
                    /\ plain.string = result.string

C3_Witness ==
    /\ BangAliasIntercepted
    /\ query = <<":", "q", "!">>
    /\ result.string = <<":", "q", "u", "i", "t", "!">>
    /\ result.action.save_behavior = "DontSave"

-----------------------------------------------------------------------------
(* C4: only leading colons are removed.  The outcome for a query is the    *)
(* outcome for the query without its leading colons, however many colons   *)
(* are put in front of it; what follows the first non-colon character      *)
(* reaches the alias lookup and the grammar payload unchanged.             *)
C4_OnlyLeadingColonsStripped ==
    Intercepted =>
        /\ result = command_interceptor(Stripped(query))
        /\ \A n \in 0..(MaxColons + 1) :
               command_interceptor(Colons(n) \o query) = result
        /\ result.kind = "Some" =>
               /\ Stripped(query) \in AliasLiterals
                      \/ result.string = <<":">> \o Stripped(query)
               /\ result.action.type = "FindCommand" =>
                      result.action.query = DropFirst(Stripped(query))
               /\ result.action.type = "ReplaceCommand" =>
                      result.action.query = Stripped(query)
        /\ (Stripped(query) \notin AliasLiterals
            /\ \E i \in 1..Len(Stripped(query)) : Stripped(query)[i] = ":"
            /\ ~GrammarPrefixed(Stripped(query))) => result = None

C4_Witness ==
    /\ Intercepted
    /\ query = <<":", ":", "/", ":", "a", ":">>
    /\ result.kind = "Some"
    /\ result.action.query = <<":", "a", ":">>
    /\ result.string = <<":", "/", ":", "a", ":">>

-----------------------------------------------------------------------------
\* pos is the greedy first-occurrence match of q in string, 0-based.
GreedyMatch(string, q, pos) ==
    LET prev(k) == IF k = 1 THEN -1 ELSE pos[k - 1]
    IN  /\ Len(pos) <= Len(q)
        /\ \A k \in 1..Len(pos) :
            /\ pos[k] \in 0..(Len(string) - 1)
            /\ pos[k] > prev(k)
            /\ string[pos[k] + 1] = q[k]
            /\ \A j \in (prev(k) + 1)..(pos[k] - 1) : string[j + 1] # q[k]
        /\ Len(pos) < Len(q) =>
            \A j \in (prev(Len(pos) + 1) + 1)..(Len(string) - 1) :
                string[j + 1] # q[Len(pos) + 1]

PositionsGenerated == call = "generate_positions"

(* C5: generate_positions(string, query) is the greedy first-occurrence    *)
(* subsequence match: position k is the smallest index of string after     *)
(* position k-1 whose character is the k-th character of query, up to the  *)
(* first query character that is not found.  The result is strictly        *)
(* increasing, within the string, no longer than the query, empty for the  *)
(* empty query; (":write","w") gives [1], (":write","wr") gives [1,2],     *)
(* (":write","xyz") gives [].                                              *)
C5_GreedyFirstOccurrence ==
    PositionsGenerated =>
        /\ GreedyMatch(gp_string, gp_query, gp_positions)
        /\ \A k \in 2..Len(gp_positions) : gp_positions[k - 1] < gp_positions[k]
        /\ gp_query = <<>> => gp_positions = <<>>
        /\ gp_string = <<":", "w", "r", "i", "t", "e">> =>
            /\ gp_query = <<"w">> => gp_positions = <<1>>
            /\ gp_query = <<"w", "r">> => gp_positions = <<1, 2>>
            /\ gp_query = <<"x", "y", "z">> => gp_positions = <<>>

C5_Witness ==
    /\ PositionsGenerated
    /\ gp_string = <<"w", ":", "w">>
    /\ gp_query = <<"w", "w", "W">>
    /\ gp_positions = <<0, 2>>

-----------------------------------------------------------------------------
(* C6: command_interceptor is total with one failure outcome: it returns   *)
(* a complete result or None and never aborts, and it returns None exactly *)
(* when the colon-stripped query is no alias literal, does not begin with  *)
(* '/', '?' or '%' and does not parse as a u32.                            *)
C6_TotalWithOneFailure ==
    Intercepted =>
        /\ result.kind \in {"Some", "None"}
        /\ result.kind = "None" => result = None
        /\ result.kind = "Some" =>
            /\ result.action.type # ""
            /\ result.string # <<>>
        /\ result = None <=>
            /\ Stripped(query) \notin AliasLiterals
            /\ ~GrammarPrefixed(Stripped(query))
            /\ ~SignedNumeric(Stripped(query))
        /\ Stripped(query) \in {<<>>, <<"a", "b", "c">>} => result = None

C6_Witness ==
    /\ Intercepted
    /\ query = <<":", ":">>
    /\ result = None

-----------------------------------------------------------------------------
SameArm(a, b) == \E i \in 1..Len(Arms) : a \in Arms[i].pats /\ b \in Arms[i].pats

AliasIntercepted == Intercepted /\ Stripped(query) \in AliasLiterals

(* C7 as stated: two alias literals that resolve to the same action with   *)
(* the same payload get the same display string, a trailing '!' apart.     *)
C7_SameActionSameString ==
    AliasIntercepted =>
        \A b \in AliasLiterals :
            command_interceptor(b).action = result.action =>
                LET other == command_interceptor(b).string
                    bare(s) == IF EndsWithBang(s) THEN WithoutBang(s) ELSE s
                IN  bare(other) = bare(result.string)

(* C7 amended: the display string depends on the arm of the alias table    *)
(* the typed literal belongs to and not on the literal: two literals of    *)
(* one arm get the same display string, action and payload.  Literals of   *)
(* different arms may share action and payload and differ in display       *)
(* string.                                                                 *)
C7_SameArmSameString ==
    AliasIntercepted =>
        \A b \in AliasLiterals :
            SameArm(b, Stripped(query)) =>
                /\ command_interceptor(b).string = result.string
                /\ command_interceptor(b).action = result.action

C7_Witness ==
    /\ AliasIntercepted
    /\ query = <<"x">>
    /\ result.string = <<":", "e", "x", "i", "t">>
    /\ command_interceptor(<<"w", "q">>).action = result.action
    /\ command_interceptor(<<"w", "q">>).string = <<":", "w", "q">>

-----------------------------------------------------------------------------
\* What the grammar fallback alone makes of the query s.
FallbackAlone(s) ==
    CommandInterceptResult(fallback(s).action, <<":">> \o s,
                           generate_positions(<<":">> \o s, s))

(* C8: at most one rule applies to a query.  No alias literal is in two    *)
(* arms of the table, none begins with '/', '?' or '%' and none parses as  *)
(* an unsigned integer; hence a query the fallback grammar resolves gets   *)
(* what the fallback alone gives it, and the fallback is reached only on   *)
(* an alias miss.                                                          *)
C8_OneRulePerQuery ==
    /\ \A i, j \in 1..Len(Arms) : i # j => Arms[i].pats \cap Arms[j].pats = {}
    /\ \A a \in AliasLiterals : ~GrammarPrefixed(a) /\ ~SignedNumeric(a)
    /\ Intercepted =>
        LET s == Stripped(query)
        IN  /\ (GrammarPrefixed(s) \/ SignedNumeric(s)) =>
                /\ s \notin AliasLiterals
                /\ result = FallbackAlone(s)
            /\ s \in AliasLiterals =>
                /\ result.kind = "Some"
                /\ result.action.type \notin
                       {"FindCommand", "ReplaceCommand", "GoToLine"}
                /\ \A i \in 1..Len(Arms) :
                       s \in Arms[i].pats =>
                           /\ result.string = <<":">> \o Arms[i].name
                           /\ result.action = Arms[i].action

C8_Witness ==
    /\ Intercepted
    /\ query = <<":", "4", "2">>
    /\ result.action = GoToLine(U32(0, 42))
    /\ result.string = <<":", "4", "2">>

-----------------------------------------------------------------------------
\* a is a subsequence of b.
RECURSIVE IsSubsequence(_, _)
IsSubsequence(a, b) ==
    IF a = <<>> THEN TRUE
    ELSE IF b = <<>> THEN FALSE
    ELSE IF a[1] = b[1] THEN IsSubsequence(Tail(a), Tail(b))
    ELSE IsSubsequence(a, Tail(b))

\* The alias literals that are no subsequence of their display string.
NotSpelledByDisplay ==
    {<<"l", "n", "e">>, <<"l", "n", "e", "x">>, <<"l", "n", "e", "x", "t">>,
     <<"d", "e", "l", "l">>, <<"d", "e", "l", "e", "l">>,
     <<"d", "e", "l", "e", "t", "l">>, <<"d", "e", "l", "e", "t", "e", "l">>,
     <<"d", "p">>, <<"d", "e", "p">>, <<"d", "e", "l", "p">>,
     <<"d", "e", "l", "e", "p">>, <<"d", "e", "l", "e", "t", "p">>,
     <<"d", "e", "l", "e", "t", "e", "p">>,
     <<"s", "o", "r", " ">>, <<"s", "o", "r", "t", " ">>}

(* C9 as stated: every alias literal is a subsequence of its display       *)
(* string, so the positions hold one index per typed character and the     *)
(* display character at the k-th position is the k-th typed character.     *)
C9_OnePositionPerTypedChar ==
    AliasIntercepted =>
        /\ IsSubsequence(Stripped(query), result.string)
        /\ Len(result.positions) = Len(Stripped(query))
        /\ \A k \in 1..Len(result.positions) :
               result.string[result.positions[k] + 1] = Stripped(query)[k]

(* C9 amended: for every alias literal the positions hold at most one      *)
(* index per typed character, the display character at the k-th position   *)
(* is the k-th typed character, and there is one index per typed character *)
(* exactly when the literal is a subsequence of its display string, which  *)
(* is every literal but lne, lnex, lnext, dell, delel, deletl, deletel,    *)
(* dp, dep, delp, delep, deletp, deletep, "sor " and "sort ".              *)
C9_PositionsSpellTypedPrefix ==
    AliasIntercepted =>
        /\ Len(result.positions) <= Len(Stripped(query))
        /\ \A k \in 1..Len(result.positions) :
               /\ result.positions[k] \in 1..(Len(result.string) - 1)
               /\ result.string[result.positions[k] + 1] = Stripped(query)[k]
        /\ \A k \in 2..Len(result.positions) :
               result.positions[k - 1] < result.positions[k]
        /\ Len(result.positions) = Len(Stripped(query))
               <=> IsSubsequence(Stripped(query), result.string)
        /\ IsSubsequence(Stripped(query), result.string)
               <=> Stripped(query) \notin NotSpelledByDisplay

C9_Witness ==
    /\ AliasIntercepted
    /\ query = <<":", "d", "e", "l", "l">>
    /\ result.string = <<":", "d", "e", "l", "e", "t", "e">>
    /\ result.positions = <<1, 2, 3>>

-----------------------------------------------------------------------------
FallbackResolved ==
    /\ Intercepted
    /\ result.kind = "Some"
    /\ result.action.type \in {"FindCommand", "ReplaceCommand", "GoToLine"}

(* C10: for a query the grammar fallback resolves, the display string is   *)
(* one ':' followed by the colon-stripped query and the positions are      *)
(* 1, 2, ..., n, n being the length of the colon-stripped query.           *)
C10_FallbackHighlightsWholeQuery ==
    FallbackResolved =>
        /\ result.string = <<":">> \o Stripped(query)
        /\ result.positions = [k \in 1..Len(Stripped(query)) |-> k]
        /\ Len(Stripped(query)) >= 1

C10_Witness ==
    /\ FallbackResolved
    /\ query = <<":", ":", "%", "s", "/", "b", "/", "d">>
    /\ result.positions = <<1, 2, 3, 4, 5, 6>>

====
